---- MODULE Spec2Model ----
(***************************************************************************)
(* Model of src/app.py: the Gutendex search/download proxy.                *)
(*                                                                         *)
(* Python strings are modelled as sequences of one-character strings, so   *)
(* that the regular expressions, slices, strip(), lower(), split() and     *)
(* join() of the source are computed character by character.  The          *)
(* character "U+00E9" stands for the single non-ASCII letter e-acute.      *)
(***************************************************************************)
EXTENDS Integers, Sequences, FiniteSets, TLC

VARIABLES pc, raw_query, api_params, target_formats, book_id, fmt_type,
          book_data, filename, calls, response

vars == <<pc, raw_query, api_params, target_formats, book_id, fmt_type,
          book_data, filename, calls, response>>

(***************************************************************************)
(* Characters and the str methods the source uses                          *)
(***************************************************************************)
LowerSeq == <<"a","b","c","d","e","f","g","h","i","j","k","l","m",
              "n","o","p","q","r","s","t","u","v","w","x","y","z">>

UpperSeq == <<"A","B","C","D","E","F","G","H","I","J","K","L","M",
              "N","O","P","Q","R","S","T","U","V","W","X","Y","Z">>

Digits == {"0","1","2","3","4","5","6","7","8","9"}

Range(f) == {f[i] : i \in DOMAIN f}

\* \w of the re module on str patterns: letters (Unicode), digits, underscore
IsWord(c) == c \in Range(LowerSeq) \cup Range(UpperSeq) \cup Digits \cup {"_", "U+00E9"}

\* \s of the re module, and the characters str.strip() removes
IsSpace(c) == c \in {" ", "\t", "\n", "\r"}

LowerChar(c) ==
    IF c \in Range(UpperSeq)
    THEN LowerSeq[CHOOSE i \in DOMAIN UpperSeq : UpperSeq[i] = c]
    ELSE c

\* str.lower()
Lower(s) == [i \in DOMAIN s |-> LowerChar(s[i])]

\* s[:n]
Take(s, n) == SubSeq(s, 1, IF n < Len(s) THEN n ELSE Len(s))

RECURSIVE LStrip(_)
LStrip(s) == IF s # <<>> /\ IsSpace(Head(s)) THEN LStrip(Tail(s)) ELSE s

RECURSIVE RStrip(_)
RStrip(s) ==
    IF s # <<>> /\ IsSpace(s[Len(s)]) THEN RStrip(SubSeq(s, 1, Len(s) - 1)) ELSE s

\* str.strip()
Strip(s) == RStrip(LStrip(s))

\* sep.join(parts)
RECURSIVE Join(_, _)
Join(sep, parts) ==
    IF parts = <<>> THEN <<>>
    ELSE IF Len(parts) = 1 THEN parts[1]
    ELSE parts[1] \o sep \o Join(sep, Tail(parts))

\* s.replace(c, by) for a one-character c
RECURSIVE Replace(_, _, _)
Replace(s, c, by) ==
    IF s = <<>> THEN <<>>
    ELSE (IF Head(s) = c THEN by ELSE <<Head(s)>>) \o Replace(Tail(s), c, by)

\* s.split(',')[0]
RECURSIVE BeforeComma(_)
BeforeComma(s) ==
    IF s = <<>> \/ Head(s) = "," THEN <<>>
    ELSE <<Head(s)>> \o BeforeComma(Tail(s))

\* a dict assignment d[k] = v
SetKey(d, k, v) == [x \in (DOMAIN d) \cup {k} |-> IF x = k THEN v ELSE d[x]]

EmptyDict == [x \in {} |-> <<>>]

(***************************************************************************)
(* CONFIGURATION                                                           *)
(***************************************************************************)
epub == <<"e","p","u","b">>
mobi == <<"m","o","b","i">>
pdf  == <<"p","d","f">>
html == <<"h","t","m","l">>
txt  == <<"t","x","t">>

FORMAT_MAPPING ==
    (epub :> <<"application/epub+zip">>)
    @@ (mobi :> <<"application/x-mobipocket-ebook", "application/kindle">>)
    @@ (pdf  :> <<"application/pdf">>)
    @@ (html :> <<"text/html">>)
    @@ (txt  :> <<"text/plain", "text/plain; charset=utf-8">>)

DEFAULT_FORMATS == <<epub, mobi>>

(***************************************************************************)
(* HELPER: PARSER                                                          *)
(* pattern = (\w+)=(.+?)(?=\s+\w+=|$)                                      *)
(* Positions are 1-based; a position p is the index of the next character  *)
(* to consume, Len(s) + 1 being the end of the string.                     *)
(***************************************************************************)
RECURSIVE WordRunEnd(_, _)
WordRunEnd(s, i) ==
    IF i <= Len(s) /\ IsWord(s[i]) THEN WordRunEnd(s, i + 1) ELSE i

RECURSIVE SpaceRunEnd(_, _)
SpaceRunEnd(s, i) ==
    IF i <= Len(s) /\ IsSpace(s[i]) THEN SpaceRunEnd(s, i + 1) ELSE i

\* (?=\s+\w+=|$) at position p; $ also matches just before a final newline
Lookahead(s, p) ==
    LET a == SpaceRunEnd(s, p)
        b == WordRunEnd(s, a)
    IN  \/ a > p /\ b > a /\ b <= Len(s) /\ s[b] = "="
        \/ p = Len(s) + 1
        \/ p = Len(s) /\ s[p] = "\n"

\* (.+?) from position v, having consumed up to e (exclusive): the shortest
\* non-empty run without a newline after which the lookahead holds; 0 if none
RECURSIVE ValueEnd(_, _, _)
ValueEnd(s, v, e) ==
    IF e - 1 > Len(s) THEN 0
    ELSE IF s[e - 1] = "\n" THEN 0
    ELSE IF Lookahead(s, e) THEN e
    ELSE ValueEnd(s, v, e + 1)

\* the end (exclusive) of the match that starts at position i; 0 if none
MatchEnd(s, i) ==
    LET k == WordRunEnd(s, i)
    IN  IF k > i /\ k <= Len(s) /\ s[k] = "=" THEN ValueEnd(s, k + 1, k + 2) ELSE 0

\* list(re.finditer(pattern, s)) from position pos, as <<group(1), group(2)>>
RECURSIVE FindIter(_, _)
FindIter(s, pos) ==
    IF pos > Len(s) THEN <<>>
    ELSE LET e == MatchEnd(s, pos)
             k == WordRunEnd(s, pos)
         IN  IF e = 0 THEN FindIter(s, pos + 1)
             ELSE <<[key |-> SubSeq(s, pos, k - 1), value |-> SubSeq(s, k + 1, e - 1)]>>
                  \o FindIter(s, e)

Str_title    == <<"t","i","t","l","e">>
Str_author   == <<"a","u","t","h","o","r">>
Str_search   == <<"s","e","a","r","c","h">>
Str_lang     == <<"l","a","n","g">>
Str_language == <<"l","a","n","g","u","a","g","e">>
Str_format   == <<"f","o","r","m","a","t">>
Str_year     == <<"y","e","a","r">>

\* one iteration of the loop over the matches; st is the triple of locals
ParseStep_FirstFormatWins(st, match) ==
    LET key   == Lower(match.key)
        value == Strip(match.value)
    IN  IF key \in {Str_title, Str_author, Str_search}
        THEN [st EXCEPT !.search_terms = Append(@, value)]
        ELSE IF key \in {Str_lang, Str_language}
        THEN [st EXCEPT !.params = SetKey(@, "languages", Take(value, 2))]
        ELSE IF /\ key = Str_format
                /\ Lower(value) \in DOMAIN FORMAT_MAPPING
                /\ "mime_type" \notin DOMAIN st.params
        THEN [st EXCEPT !.params = SetKey(@, "mime_type", FORMAT_MAPPING[Lower(value)][1]),
                        !.target_formats = <<Lower(value)>>]
        ELSE st

ParseStep(st, match) ==
    LET key   == Lower(match.key)
        value == Strip(match.value)
    IN  IF key \in {Str_title, Str_author, Str_search}
        THEN [st EXCEPT !.search_terms = Append(@, value)]
        ELSE IF key \in {Str_lang, Str_language}
        THEN [st EXCEPT !.params = SetKey(@, "languages", Take(value, 2))]
        ELSE IF key = Str_format /\ Lower(value) \in DOMAIN FORMAT_MAPPING
        THEN [st EXCEPT !.params = SetKey(@, "mime_type", FORMAT_MAPPING[Lower(value)][1]),
                        !.target_formats = <<Lower(value)>>]
        ELSE st

RECURSIVE ParseLoop(_, _)
ParseLoop(st, matches) ==
    IF matches = <<>> THEN st
    ELSE ParseLoop(ParseStep(st, Head(matches)), Tail(matches))

\* parse_search_query(raw_query) = <<params, target_formats>>
parse_search_query(q) ==
    LET matches == FindIter(q, 1)
        st0 == [params |-> EmptyDict, search_terms |-> <<>>,
                target_formats |-> DEFAULT_FORMATS]
        st  == ParseLoop(st0, matches)
    IN  IF matches = <<>>
        THEN <<SetKey(EmptyDict, "search", q), DEFAULT_FORMATS>>
        ELSE <<IF st.search_terms # <<>>
               THEN SetKey(st.params, "search", Join(<<" ">>, st.search_terms))
               ELSE st.params,
               st.target_formats>>

(***************************************************************************)
(* HELPER: FILENAME FORMATTER                                              *)
(* book_data is a dict: a function whose domain holds the keys present.    *)
(***************************************************************************)
TITLE_LIMIT == 42

Unknown == <<"U","n","k","n","o","w","n">>

en == <<"e","n">>

\* the character class [\\/*?:"<>|]
ILLEGAL_CHARS == {"\\", "/", "*", "?", ":", "\"", "<", ">", "|"}

\* re.sub(r'[\\/*?:"<>|]', "", filename)
RECURSIVE Sanitize_Hyphen(_)
Sanitize_Hyphen(s) ==
    IF s = <<>> THEN <<>>
    ELSE (IF Head(s) \in ILLEGAL_CHARS THEN <<"-">> ELSE <<Head(s)>>)
         \o Sanitize_Hyphen(Tail(s))

RECURSIVE Sanitize(_)
Sanitize(s) ==
    IF s = <<>> THEN <<>>
    ELSE (IF Head(s) \in ILLEGAL_CHARS THEN <<>> ELSE <<Head(s)>>) \o Sanitize(Tail(s))

\* step 1: first author, text before the comma
Surname(bd) ==
    IF "authors" \in DOMAIN bd /\ bd["authors"] # <<>>
    THEN Strip(BeforeComma(bd["authors"][1].name))
    ELSE Unknown

\* step 2: the title without carriage returns and newlines
CleanTitle(bd) == Replace(Replace(bd["title"], "\r", <<>>), "\n", <<" ">>)

\* step 2: the length limit
TruncateTitle_NoStrip(title) ==
    IF Len(title) > TITLE_LIMIT
    THEN Take(title, TITLE_LIMIT) \o <<".", ".", ".">>
    ELSE title

TruncateTitle(title) ==
    IF Len(title) > TITLE_LIMIT
    THEN Strip(Take(title, TITLE_LIMIT)) \o <<".", ".", ".">>
    ELSE title

\* step 3: the language code
LangCode(bd) ==
    LET langs == IF "languages" \in DOMAIN bd THEN bd["languages"] ELSE <<en>>
    IN  IF langs # <<>> THEN langs[1] ELSE en

\* step 4: f"{surname} - {title} [{lang_code}].{fmt_type}"
Compose(surname, title, lang_code, fmt) ==
    surname \o <<" ", "-", " ">> \o title \o <<" ", "[">> \o lang_code
            \o <<"]", ".">> \o fmt

format_filename(bd, fmt) ==
    Sanitize(Compose(Surname(bd), TruncateTitle(CleanTitle(bd)), LangCode(bd), fmt))

(***************************************************************************)
(* Outbound calls and responses                                            *)
(* calls is the log of requests.get calls of the running request, each     *)
(* with the answer it got; response is what the handler returned.          *)
(***************************************************************************)
Pending == [kind |-> "pending", status |-> 0]

NetworkError == [kind |-> "neterr", status |-> 0]

Http(status) == [kind |-> "http", status |-> status]

NotJson == [json |-> FALSE, data |-> EmptyDict]

JsonBody(data) == [json |-> TRUE, data |-> data]

Call(target, id, url) ==
    [target |-> target, book |-> id, url |-> url, answer |-> Pending, body |-> NotJson]

\* the last call of the log gets its answer; a failed call has no body
Answered(log, ans, body) ==
    [log EXCEPT ![Len(log)].answer = ans,
                ![Len(log)].body = IF ans.kind = "http" THEN body ELSE NotJson]

NoResponse == [status |-> 0, kind |-> "none"]

ErrorResponse(status, msg) == [status |-> status, kind |-> "error", error |-> msg]

(***************************************************************************)
(* ENDPOINT 1: SEARCH                                                      *)
(***************************************************************************)
MAX_BOOKS == 5

\* any(mime in book['formats'] for mime in FORMAT_MAPPING[fmt_key])
has_format(book, fmt_key) ==
    \E i \in DOMAIN FORMAT_MAPPING[fmt_key] :
        FORMAT_MAPPING[fmt_key][i] \in DOMAIN book["formats"]

\* the inner loop over target_formats
RECURSIVE available_options(_, _)
available_options(book, formats) ==
    IF formats = <<>> THEN <<>>
    ELSE LET fmt_key == Head(formats)
             rest == available_options(book, Tail(formats))
         IN  IF fmt_key \notin DOMAIN FORMAT_MAPPING THEN rest
             ELSE IF has_format(book, fmt_key)
             THEN <<[type |-> fmt_key,
                     download_link |-> <<"/download", book["id"], fmt_key>>]>> \o rest
             ELSE rest

\* ", ".join([a['name'] for a in book.get('authors', [])])
AuthorsDisplay(book) ==
    LET authors == IF "authors" \in DOMAIN book THEN book["authors"] ELSE <<>>
    IN  Join(<<",", " ">>, [i \in DOMAIN authors |-> authors[i].name])

\* the dict appended to results
BookSummary(book, formats) ==
    [id |-> book["id"],
     title |-> book["title"],
     authors |-> AuthorsDisplay(book),
     languages |-> IF "languages" \in DOMAIN book THEN book["languages"] ELSE <<>>,
     options |-> available_options(book, formats)]

\* the outer loop over the books
RECURSIVE ShapeResults(_, _)
ShapeResults(books, formats) ==
    IF books = <<>> THEN <<>>
    ELSE LET rest == ShapeResults(Tail(books), formats)
         IN  IF available_options(Head(books), formats) # <<>>
             THEN <<BookSummary(Head(books), formats)>> \o rest
             ELSE rest

\* data.get('results', [])[:5]
FirstBooks_NoLimit(data) ==
    IF "results" \in DOMAIN data THEN data["results"] ELSE <<>>

FirstBooks(data) ==
    Take(IF "results" \in DOMAIN data THEN data["results"] ELSE <<>>, MAX_BOOKS)

SearchPayload(data, formats) ==
    LET results == ShapeResults(FirstBooks(data), formats)
    IN  [status |-> 200, kind |-> "json", count |-> Len(results), results |-> results]

\* search_books up to its requests.get
SearchRequest(q) ==
    /\ pc = "idle"
    /\ raw_query' = q
    /\ IF q = <<>>
       THEN /\ response' = ErrorResponse(400, "Missing 'q'")
            /\ pc' = "done"
            /\ UNCHANGED <<api_params, target_formats, calls>>
       ELSE /\ api_params' = parse_search_query(q)[1]
            /\ target_formats' = parse_search_query(q)[2]
            /\ calls' = Append(calls, Call("search", 0, "GUTENDEX_API_URL"))
            /\ pc' = "search_call"
            /\ UNCHANGED response
    /\ UNCHANGED <<book_id, fmt_type, book_data, filename>>

\* search_books from the answer of the catalog API to its return
SearchAnswer(ans, body) ==
    /\ pc = "search_call"
    /\ calls' = Answered(calls, ans, body)
    /\ response' =
          IF ans.kind = "neterr" THEN ErrorResponse(500, "ConnectionError")
          ELSE IF ~body.json THEN ErrorResponse(500, "JSONDecodeError")
          ELSE SearchPayload(body.data, target_formats)
    /\ pc' = "done"
    /\ UNCHANGED <<raw_query, api_params, target_formats, book_id, fmt_type,
                   book_data, filename>>

(***************************************************************************)
(* ENDPOINT 2: DOWNLOAD                                                    *)
(***************************************************************************)
\* the loop over target_mimes = <<found, download_url>>
RECURSIVE FindDownloadUrl_LastPresent(_, _)
FindDownloadUrl_LastPresent(target_mimes, formats) ==
    IF target_mimes = <<>> THEN <<FALSE, "">>
    ELSE IF target_mimes[Len(target_mimes)] \in DOMAIN formats
    THEN <<TRUE, formats[target_mimes[Len(target_mimes)]]>>
    ELSE FindDownloadUrl_LastPresent(SubSeq(target_mimes, 1, Len(target_mimes) - 1), formats)

RECURSIVE FindDownloadUrl(_, _)
FindDownloadUrl(target_mimes, formats) ==
    IF target_mimes = <<>> THEN <<FALSE, "">>
    ELSE IF Head(target_mimes) \in DOMAIN formats
    THEN <<TRUE, formats[Head(target_mimes)]>>
    ELSE FindDownloadUrl(Tail(target_mimes), formats)

\* if not download_url
NoDownloadUrl(found) == ~found[1] \/ found[2] = ""

\* download_book up to its first requests.get
DownloadRequest_FetchFirst(id, fmt) ==
    /\ pc = "idle"
    /\ book_id' = id
    /\ fmt_type' = fmt
    /\ calls' = Append(calls, Call("metadata", id, "GUTENDEX_API_URL"))
    /\ IF fmt \notin DOMAIN FORMAT_MAPPING
       THEN /\ response' = ErrorResponse(400, "Invalid format")
            /\ pc' = "done"
       ELSE /\ pc' = "meta_call"
            /\ UNCHANGED response
    /\ UNCHANGED <<raw_query, api_params, target_formats, book_data, filename>>

DownloadRequest(id, fmt) ==
    /\ pc = "idle"
    /\ book_id' = id
    /\ fmt_type' = fmt
    /\ IF fmt \notin DOMAIN FORMAT_MAPPING
       THEN /\ response' = ErrorResponse(400, "Invalid format")
            /\ pc' = "done"
            /\ UNCHANGED calls
       ELSE /\ calls' = Append(calls, Call("metadata", id, "GUTENDEX_API_URL"))
            /\ pc' = "meta_call"
            /\ UNCHANGED response
    /\ UNCHANGED <<raw_query, api_params, target_formats, book_data, filename>>

\* the metadata lookup gave a book: no exception and no 404 up to step 3
MetaOk(ans, body) ==
    /\ ans.kind = "http"
    /\ ans.status # 404
    /\ body.json
    /\ {"title", "formats"} \subseteq DOMAIN body.data

\* what download_book returns when the metadata lookup gave no book
MetaFailure_JsonFirst(ans, body) ==
    IF ans.kind = "neterr" THEN ErrorResponse(500, "ConnectionError")
    ELSE IF ~body.json THEN ErrorResponse(500, "JSONDecodeError")
    ELSE IF ans.status = 404 THEN ErrorResponse(404, "Book not found")
    ELSE ErrorResponse(500, "KeyError")

MetaFailure(ans, body) ==
    IF ans.kind = "neterr" THEN ErrorResponse(500, "ConnectionError")
    ELSE IF ans.status = 404 THEN ErrorResponse(404, "Book not found")
    ELSE IF ~body.json THEN ErrorResponse(500, "JSONDecodeError")
    ELSE ErrorResponse(500, "KeyError")

\* download_book from the answer of the metadata lookup to the content fetch
MetaAnswer(ans, body) ==
    /\ pc = "meta_call"
    /\ LET ok == MetaOk(ans, body)
           found == FindDownloadUrl(FORMAT_MAPPING[fmt_type], body.data["formats"])
       IN  /\ calls' = IF ok /\ ~NoDownloadUrl(found)
                       THEN Append(Answered(calls, ans, body),
                                   Call("content", book_id, found[2]))
                       ELSE Answered(calls, ans, body)
           /\ book_data' = IF ok THEN body.data ELSE book_data
           /\ filename' = IF ok THEN format_filename(body.data, fmt_type) ELSE filename
           /\ response' =
                 IF ~ok THEN MetaFailure(ans, body)
                 ELSE IF NoDownloadUrl(found) THEN ErrorResponse(404, "Format not found")
                 ELSE response
           /\ pc' = IF ok /\ ~NoDownloadUrl(found) THEN "content_call" ELSE "done"
    /\ UNCHANGED <<raw_query, api_params, target_formats, book_id, fmt_type>>

\* r.raise_for_status() raises for 4xx and 5xx
RaisesForStatus(status) == 400 <= status /\ status < 600

\* download_book from the answer of the mirror to its return
ContentAnswer(ans) ==
    /\ pc = "content_call"
    /\ calls' = Answered(calls, ans, NotJson)
    /\ response' =
          IF ans.kind = "neterr" THEN ErrorResponse(500, "ConnectionError")
          ELSE IF RaisesForStatus(ans.status) THEN ErrorResponse(500, "HTTPError")
          ELSE [status |-> 200, kind |-> "file",
                mimetype |-> FORMAT_MAPPING[fmt_type][1],
                download_name |-> filename,
                content_of |-> calls[Len(calls)].url]
    /\ pc' = "done"
    /\ UNCHANGED <<raw_query, api_params, target_formats, book_id, fmt_type,
                   book_data, filename>>

(***************************************************************************)
(* Inputs of the two endpoints: what a client sends and what the catalog   *)
(* API and the mirror answer.  A catalog book always carries id, title and *)
(* formats (a map from MIME type to URL); authors and languages may be     *)
(* missing.                                                                *)
(***************************************************************************)
MaxResults == 6

MaxBookId == 2

Name1 == <<"K","a",","," ","F">>

Name2 == <<"M","u">>

Title1 == <<"T",":"," ","1">>

BookKinds == {"E", "H", "K"}

KindData(kind) ==
    IF kind = "E"
    THEN [title |-> Title1,
          authors |-> <<[name |-> Name1], [name |-> Name2]>>,
          languages |-> <<en>>,
          formats |-> ("application/epub+zip" :> "http://mirror/e.epub")]
    ELSE IF kind = "H"
    THEN [title |-> Title1,
          formats |-> ("text/html" :> "http://mirror/h.html")]
    ELSE [title |-> Title1,
          authors |-> <<>>,
          languages |-> <<en>>,
          formats |-> ("application/kindle" :> "http://mirror/k.kindle")]

\* the result list of the catalog: the book at position i has id i
Books(kinds) == [i \in DOMAIN kinds |-> KindData(kinds[i]) @@ ("id" :> i)]

ResultLists == UNION {[1..n -> BookKinds] : n \in 0..MaxResults}

ErrorBody == JsonBody("detail" :> "error")

SearchQueries == {<<>>, <<"k","a","f">>, <<"f","o","r","m","a","t","=","e","p","u","b">>, <<"f","o","r","m","a","t","=","m","o","b","i">>, <<"t","i","t","l","e","=","k"," ","f","o","r","m","a","t","=","h","t","m","l">>}

SearchAnswers == {NetworkError, Http(200), Http(500)}

SearchBodies ==
    {NotJson, ErrorBody} \cup {JsonBody("results" :> Books(l)) : l \in ResultLists}

FormatMaps ==
    { "application/epub+zip" :> "http://mirror/e.epub",
      "text/html" :> "http://mirror/h.html",
      "application/kindle" :> "http://mirror/k.kindle",
      ("application/x-mobipocket-ebook" :> "http://mirror/m.mobi")
          @@ ("application/kindle" :> "http://mirror/k.kindle"),
      ("application/x-mobipocket-ebook" :> "")
          @@ ("application/kindle" :> "http://mirror/k.kindle"),
      ("text/plain; charset=utf-8" :> "http://mirror/t.txt")
          @@ ("application/pdf" :> "http://mirror/p.pdf"),
      EmptyDict }

MetaBooks ==
    {[id |-> 1, title |-> Title1, formats |-> f] : f \in FormatMaps}
    \cup {[id |-> 1, title |-> Title1, authors |-> <<[name |-> Name1]>>,
           languages |-> <<en>>, formats |-> f] : f \in FormatMaps}

Str_doc == <<"d","o","c">>

Str_EPUB == <<"E","P","U","B">>

DownloadFormats == (DOMAIN FORMAT_MAPPING) \cup {Str_doc, Str_EPUB}

MetaAnswers == {NetworkError, Http(200), Http(404), Http(500)}

MetaBodies == {NotJson, ErrorBody} \cup {JsonBody(b) : b \in MetaBooks}

ContentAnswers == {NetworkError, Http(200), Http(304), Http(404), Http(500)}

Init ==
    /\ pc = "idle"
    /\ raw_query = <<>>
    /\ api_params = EmptyDict
    /\ target_formats = <<>>
    /\ book_id = 0
    /\ fmt_type = <<>>
    /\ book_data = EmptyDict
    /\ filename = <<>>
    /\ calls = <<>>
    /\ response = NoResponse

Next ==
    \/ \E q \in SearchQueries : SearchRequest(q)
    \/ \E ans \in SearchAnswers, body \in SearchBodies : SearchAnswer(ans, body)
    \/ \E id \in 1..MaxBookId, fmt \in DownloadFormats : DownloadRequest(id, fmt)
    \/ \E ans \in MetaAnswers, body \in MetaBodies : MetaAnswer(ans, body)
    \/ \E ans \in ContentAnswers : ContentAnswer(ans)

Spec == Init /\ [][Next]_vars

(***************************************************************************)
(* parse_search_query on its own: the raw queries are up to MaxTokens      *)
(* tokens joined by single spaces.                                         *)
(***************************************************************************)
MaxTokens == 3

QueryTokens == {<<"f","o","r","m","a","t","=","e","p","u","b">>,
                <<"f","o","r","m","a","t","=","m","o","b","i">>,
                <<"F","O","R","M","A","T","=","E","p","u","b">>,
                <<"x","f","o","r","m","a","t","=","e","p","u","b">>,
                <<"y","e","a","r","=","1","9">>,
                <<"l","a","n","g","=","e","n","g">>,
                <<"t","i","t","l","e","=","k">>,
                <<"x">>,
                <<"a","=">>,
                <<"\n">>}

RECURSIVE QueriesOf(_)
QueriesOf(n) ==
    IF n = 1 THEN QueryTokens
    ELSE {q \o <<" ">> \o t : q \in QueriesOf(n - 1), t \in QueryTokens}

Queries == UNION {QueriesOf(n) : n \in 1..MaxTokens}

InitParse ==
    /\ pc = "parse_call"
    /\ raw_query \in Queries
    /\ api_params = EmptyDict
    /\ target_formats = <<>>
    /\ book_id = 0
    /\ fmt_type = <<>>
    /\ book_data = EmptyDict
    /\ filename = <<>>
    /\ calls = <<>>
    /\ response = NoResponse

ParseQuery ==
    /\ pc = "parse_call"
    /\ api_params' = parse_search_query(raw_query)[1]
    /\ target_formats' = parse_search_query(raw_query)[2]
    /\ pc' = "parse_done"
    /\ UNCHANGED <<raw_query, book_id, fmt_type, book_data, filename, calls, response>>

NextParse == ParseQuery

SpecParse == InitParse /\ [][NextParse]_vars

(***************************************************************************)
(* format_filename on its own.  A title is a lead, MinFill..MaxFill (or    *)
(* no) letters, up to two characters of TitleChars and up to MaxTail       *)
(* letters, so that every kind of character falls before, on and after     *)
(* the length limit.                                                       *)
(***************************************************************************)
MinFill == 38

MaxFill == 42

MaxTail == 2

Fill(c, n) == [i \in 1..n |-> c]

TitleLeads == {<<>>, <<" ">>, <<"\r">>}

TitleChars == {" ", "/", "\n", "\r", "U+00E9"}

TitleMids == {<<>>} \cup {<<c>> : c \in TitleChars}
             \cup {<<c, d>> : c \in TitleChars, d \in TitleChars}

Titles ==
    {lead \o Fill("a", m) \o mid \o Fill("b", k) :
        lead \in TitleLeads, m \in {0} \cup (MinFill..MaxFill),
        mid \in TitleMids, k \in 0..MaxTail}

AuthorLists == {<<>>, <<[name |-> Name1], [name |-> Name2]>>, <<[name |-> <<" ","O",":","N"," ",","," ","P">>]>>}

LanguageLists == {<<>>, <<<<"d","|","e">>, en>>}

FilenameBooks ==
    {[title |-> t] : t \in Titles}
    \cup {[title |-> t, authors |-> a, languages |-> l] :
            t \in Titles, a \in AuthorLists, l \in LanguageLists}

FilenameFormats == {epub, <<"t","*","t">>}

InitFilename ==
    /\ pc = "filename_call"
    /\ book_data \in FilenameBooks
    /\ fmt_type \in FilenameFormats
    /\ raw_query = <<>>
    /\ api_params = EmptyDict
    /\ target_formats = <<>>
    /\ book_id = 0
    /\ filename = <<>>
    /\ calls = <<>>
    /\ response = NoResponse

FormatFilename ==
    /\ pc = "filename_call"
    /\ filename' = format_filename(book_data, fmt_type)
    /\ pc' = "filename_done"
    /\ UNCHANGED <<raw_query, api_params, target_formats, book_id, fmt_type,
                   book_data, calls, response>>

NextFilename == FormatFilename

SpecFilename == InitFilename /\ [][NextFilename]_vars

(***************************************************************************)
(* Properties                                                              *)
(***************************************************************************)
SetMin(S) == CHOOSE x \in S : \A y \in S : x <= y

SetMax(S) == CHOOSE x \in S : \A y \in S : x >= y

\* sub occurs in s as a substring
Contains(s, sub) ==
    \E i \in 1..(Len(s) - Len(sub) + 1) : SubSeq(s, i, i + Len(sub) - 1) = sub

\* the search handler answered with a result payload
SearchSucceeded ==
    /\ pc = "done"
    /\ Len(calls) = 1
    /\ calls[1].target = "search"
    /\ response.kind = "json"

\* the result list the catalog API sent
SearchUpstream ==
    LET data == calls[1].body.data
    IN  IF "results" \in DOMAIN data THEN data["results"] ELSE <<>>

\* the book's format map has a MIME type of one of the target formats
HasTargetFormat(book) ==
    \E i \in DOMAIN target_formats :
        \E j \in DOMAIN FORMAT_MAPPING[target_formats[i]] :
            FORMAT_MAPPING[target_formats[i]][j] \in DOMAIN book["formats"]

IncludedIds == {response.results[j].id : j \in DOMAIN response.results}

\* C1: the search results hold exactly the books among the first 5 upstream
\* entries whose format map has a MIME type of a target format, and count is
\* the number of books included (at most 5), not the upstream count.
C1_SearchKeepsBooksWithTargetFormat ==
    SearchSucceeded =>
        /\ \A i \in DOMAIN SearchUpstream :
              (SearchUpstream[i]["id"] \in IncludedIds)
                  <=> (i <= MAX_BOOKS /\ HasTargetFormat(SearchUpstream[i]))
        /\ response.count = Len(response.results)
        /\ response.count = Cardinality(IncludedIds)
        /\ response.count <= MAX_BOOKS

\* a search that dropped a book among the first 5, kept another, and left out
\* a qualifying sixth book
C1_Witness ==
    /\ SearchSucceeded
    /\ Len(SearchUpstream) > MAX_BOOKS
    /\ HasTargetFormat(SearchUpstream[MAX_BOOKS + 1])
    /\ \E i \in 1..MAX_BOOKS : ~HasTargetFormat(SearchUpstream[i])
    /\ response.count > 0
    /\ response.count < Len(SearchUpstream)

\* the metadata lookup of a download answered 200 with a book
DownloadMetadataFound ==
    /\ Len(calls) >= 1
    /\ calls[1].target = "metadata"
    /\ calls[1].answer = Http(200)
    /\ calls[1].body.json
    /\ {"title", "formats"} \subseteq DOMAIN calls[1].body.data

\* the positions, in the format's preference order, of the MIME types present
PresentMimes ==
    {i \in DOMAIN FORMAT_MAPPING[fmt_type] :
        FORMAT_MAPPING[fmt_type][i] \in DOMAIN calls[1].body.data["formats"]}

FirstPresentUrl ==
    calls[1].body.data["formats"][FORMAT_MAPPING[fmt_type][SetMin(PresentMimes)]]

ContentFetchedFrom(url) ==
    /\ Len(calls) = 2
    /\ calls[2].target = "content"
    /\ calls[2].url = url
    /\ response.kind = "file" =>
          /\ response.content_of = url
          /\ response.mimetype = FORMAT_MAPPING[fmt_type][1]

FormatNotFound ==
    /\ pc = "done"
    /\ Len(calls) = 1
    /\ response.kind = "error"
    /\ response.status = 404

\* C2 as claimed: the content is fetched from the URL of the first present
\* MIME type of the format, 404 when none is present, and a served file is
\* labelled with the format's primary MIME type.
C2_Original ==
    DownloadMetadataFound =>
        IF PresentMimes = {} THEN FormatNotFound
        ELSE ContentFetchedFrom(FirstPresentUrl)

\* C2: as claimed, except that a first present MIME type whose URL is empty
\* is answered 404 like an absent format.
C2_DownloadUsesFirstPresentMime ==
    DownloadMetadataFound =>
        IF PresentMimes = {} THEN FormatNotFound
        ELSE IF FirstPresentUrl = "" THEN FormatNotFound
        ELSE ContentFetchedFrom(FirstPresentUrl)

\* a mobi download served from the application/kindle URL
C2_Witness ==
    /\ DownloadMetadataFound
    /\ fmt_type = mobi
    /\ "application/x-mobipocket-ebook" \notin DOMAIN calls[1].body.data["formats"]
    /\ response.kind = "file"
    /\ response.content_of = "http://mirror/k.kindle"
    /\ response.mimetype = "application/x-mobipocket-ebook"

\* the outbound call failed: a network error, or a status outside 2xx other
\* than the 404 of a metadata lookup
UpstreamFailed(call) ==
    \/ call.answer.kind = "neterr"
    \/ /\ call.answer.kind = "http"
       /\ call.answer.status \notin 200..299
       /\ ~(call.target = "metadata" /\ call.answer.status = 404)

\* C3 as claimed: a request one of whose outbound calls failed ends with an
\* error response of status 500 or 502, and no outbound call is made twice.
C3_UpstreamFailureIsAnError ==
    /\ \A i, j \in DOMAIN calls : i # j => calls[i].target # calls[j].target
    /\ (pc = "done" /\ \E i \in DOMAIN calls : UpstreamFailed(calls[i])) =>
          /\ response.kind = "error"
          /\ response.status \in {500, 502}

\* the catalog API reported the book of a download as not found
MetadataNotFound ==
    /\ Len(calls) >= 1
    /\ calls[1].target = "metadata"
    /\ calls[1].answer = Http(404)

\* C4: a download whose metadata lookup is answered not-found ends with a
\* 404 error body, and makes no content fetch.
C4_UnknownBookIsNotFound ==
    MetadataNotFound =>
        /\ pc = "done"
        /\ response.kind = "error"
        /\ response.status = 404
        /\ \A i \in DOMAIN calls : calls[i].target # "content"

\* a not-found answer whose body is not JSON
C4_Witness ==
    /\ MetadataNotFound
    /\ fmt_type \in DOMAIN FORMAT_MAPPING
    /\ ~calls[1].body.json
    /\ response.status = 404

\* C5: a download whose format code is no key of FORMAT_MAPPING is answered
\* 400 and never makes an outbound call.
C5_UnknownFormatIsRejectedFirst ==
    (book_id # 0 /\ fmt_type \notin DOMAIN FORMAT_MAPPING) =>
        /\ pc = "done"
        /\ response.kind = "error"
        /\ response.status = 400
        /\ calls = <<>>

\* a download of the format code "EPUB", which differs from the key by case
C5_Witness ==
    /\ book_id # 0
    /\ fmt_type = Str_EPUB
    /\ response.status = 400

\* C6 as claimed: a raw query that contains format=epub gives the target
\* format list [epub].
C6_Original ==
    (pc = "parse_done" /\ Contains(raw_query, <<"f","o","r","m","a","t","=","e","p","u","b">>)) =>
        target_formats = <<epub>>

\* the token is a format token that names a known format code
IsKnownFormatToken(match) ==
    /\ Lower(match.key) = Str_format
    /\ Lower(Strip(match.value)) \in DOMAIN FORMAT_MAPPING

KnownFormatTokens == SelectSeq(FindIter(raw_query, 1), IsKnownFormatToken)

LastKnownFormat ==
    Lower(Strip(KnownFormatTokens[Len(KnownFormatTokens)].value))

\* C6: a raw query whose last format token with a known format code is
\* format=epub gives the target format list [epub].
C6_LastFormatTokenWins ==
    (pc = "parse_done" /\ KnownFormatTokens # <<>> /\ LastKnownFormat = epub) =>
        target_formats = <<epub>>

\* format=epub after a format token that names another format
C6_Witness ==
    /\ pc = "parse_done"
    /\ Len(KnownFormatTokens) >= 2
    /\ Lower(Strip(KnownFormatTokens[1].value)) = mobi
    /\ LastKnownFormat = epub
    /\ target_formats = <<epub>>

\* C7 as claimed: a query with a year=Y token gives a filter set with a
\* start-year and an end-year filter, both Y.
C7_YearSetsBothBounds ==
    pc = "parse_done" =>
        \A i \in DOMAIN FindIter(raw_query, 1) :
            Lower(FindIter(raw_query, 1)[i].key) = Str_year =>
                /\ {"author_year_start", "author_year_end"} \subseteq DOMAIN api_params
                /\ api_params["author_year_start"] = api_params["author_year_end"]

\* the author names of the upstream book with this id
UpstreamAuthorNames(id) ==
    LET book == SearchUpstream[CHOOSE i \in DOMAIN SearchUpstream :
                                  SearchUpstream[i]["id"] = id]
        authors == IF "authors" \in DOMAIN book THEN book["authors"] ELSE <<>>
    IN  [i \in DOMAIN authors |-> authors[i].name]

\* C8 as claimed: the display author string of a search result is the author
\* names joined with ", ", and "Unknown" for a book without authors.
C8_AuthorsDisplayOrUnknown ==
    SearchSucceeded =>
        \A j \in DOMAIN response.results :
            response.results[j].authors =
                IF UpstreamAuthorNames(response.results[j].id) = <<>>
                THEN Unknown
                ELSE Join(<<",", " ">>, UpstreamAuthorNames(response.results[j].id))

\* the filename that has part as its title part
FilenameWithTitle(part) ==
    Sanitize(Compose(Surname(book_data), part, LangCode(book_data), fmt_type))

Ellipsis == <<".", ".", ".">>

\* C9 as claimed: the title part of the filename is the first 42 characters
\* of the cleaned title followed by "..." when the cleaned title is longer
\* than 42 characters, and the cleaned title otherwise.
C9_Original ==
    pc = "filename_done" =>
        filename = FilenameWithTitle(
            IF Len(CleanTitle(book_data)) > TITLE_LIMIT
            THEN Take(CleanTitle(book_data), TITLE_LIMIT) \o Ellipsis
            ELSE CleanTitle(book_data))

\* the first 42 characters of t without leading and trailing whitespace
StrippedPrefix(t) ==
    LET inner == {i \in 1..TITLE_LIMIT : ~IsSpace(t[i])}
    IN  IF inner = {} THEN <<>> ELSE SubSeq(t, SetMin(inner), SetMax(inner))

\* C9: the title part of the filename is the first 42 characters of the
\* cleaned title, without their leading and trailing whitespace, followed by
\* "..." when the cleaned title is longer than 42 characters, and the cleaned
\* title otherwise.
C9_TitleTruncatedAndStripped ==
    pc = "filename_done" =>
        filename = FilenameWithTitle(
            IF Len(CleanTitle(book_data)) > TITLE_LIMIT
            THEN StrippedPrefix(CleanTitle(book_data)) \o Ellipsis
            ELSE CleanTitle(book_data))

\* a title longer than 42 characters whose 42nd character is a space
C9_Witness ==
    /\ pc = "filename_done"
    /\ Len(CleanTitle(book_data)) > TITLE_LIMIT
    /\ CleanTitle(book_data)[TITLE_LIMIT] = " "
    /\ ~IsSpace(CleanTitle(book_data)[1])
    /\ Contains(filename, <<"a", ".", ".", ".", " ", "[">>)

Forbidden == {"\\", "/", "*", "?", ":", "\"", "<", ">", "|"}

NotForbidden(c) == c \notin Forbidden

Composed ==
    Compose(Surname(book_data), TruncateTitle(CleanTitle(book_data)),
            LangCode(book_data), fmt_type)

\* C10: the filename has none of the characters \ / * ? : " < > | and is the
\* composed string "{surname} - {title} [{lang}].{format_code}" without
\* those characters, every other character kept in place.
C10_FilenameIsComposedWithoutForbidden ==
    pc = "filename_done" =>
        /\ \A i \in DOMAIN filename : filename[i] \notin Forbidden
        /\ filename = SelectSeq(Composed, NotForbidden)

\* a filename that lost a forbidden character and kept a non-ASCII letter
C10_Witness ==
    /\ pc = "filename_done"
    /\ \E i \in DOMAIN Composed : Composed[i] \in Forbidden
    /\ \E i \in DOMAIN filename : filename[i] = "U+00E9"
    /\ Len(filename) < Len(Composed)

====
